---- MODULE Spec2Model ----
(***************************************************************************)
(* Model of src/Agent.py: the "historical court" agent pipeline.           *)
(*                                                                         *)
(*   root_agent    = SequentialAgent [resetter, clerk, court_trial,        *)
(*                                    verdict_scribe]                      *)
(*   court_trial   = LoopAgent [investigation_team, judge], 6 iterations   *)
(*   investigation_team = ParallelAgent [admirer, critic]                  *)
(*                                                                         *)
(* and the tools the agents call on the shared session state: set_state,   *)
(* append_state, reset_case, write_file, exit_loop.                        *)
(*                                                                         *)
(* Three specifications:                                                   *)
(*   Spec      one run of root_agent on a session state left by an earlier *)
(*             run (or empty);                                             *)
(*   FairSpec  Spec in which every call made by an agent returns;          *)
(*   ToolSpec  the state tools called directly, in any order, on small     *)
(*             session states of any shape.                                *)
(***************************************************************************)
EXTENDS Integers, Sequences, FiniteSets, TLC

VARIABLES
    state,         \* tool_context.state: the session state, field -> value
    result,        \* "status" of the dict returned by the last tool call
    last,          \* the last completed tool call and the state it ran on
    pc,            \* the sub-agent of root_agent that runs next
    sub,           \* position inside court_trial
    times_looped,  \* completed iterations of court_trial
    worker,        \* admirer / critic: position in their turn, append in flight
    snapshot,      \* session state when the current investigation_team started
    invocations,   \* how often each agent has been run
    files,         \* what write_file has written: path and content
    judge_calls,   \* the tool calls of the latest judge turn, in order
    ncalls         \* ToolSpec: direct tool calls made so far

vars == << state, result, last, pc, sub, times_looped, worker, snapshot,
           invocations, files, judge_calls, ncalls >>

-----------------------------------------------------------------------------
(* Bounds of the model                                                     *)

\* ToolSpec: number of direct tool calls explored from each initial state.
MaxCalls == 2

-----------------------------------------------------------------------------
(* Program constants                                                       *)

\* court_trial: max_iterations=6
max_iterations == 6

\* judge: "has < 4 points", "at least 4 clear bullet points"
Threshold == 4

\* admirer / critic: "Each round add ONLY 2 NEW distinct ..."
PointsPerRound == 2

-----------------------------------------------------------------------------
(* Values of the session state.  Python values of different types are kept *)
(* apart by a tag, so that isinstance(existing, list) can be modelled.     *)

Fields == {"topic", "pos_data", "neg_data", "judge_feedback",
           "pos_round", "neg_round"}

\* "extra" stands for any other key of the session dict: the tools take any
\* field name, and reset_case assigns only the six fields it names.
Keys == Fields \cup {"extra"}

Absent     == [type |-> "absent", str |-> "", list |-> << >>, int |-> 0]
StrVal(s)  == [type |-> "str",    str |-> s,  list |-> << >>, int |-> 0]
ListVal(l) == [type |-> "list",   str |-> "", list |-> l,     int |-> 0]
IntVal(n)  == [type |-> "int",    str |-> "", list |-> << >>, int |-> n]

\* isinstance(x, list)
IsList(x) == x.type = "list"

\* len(state[field]) as the judge counts it; a missing or non-list field
\* has no points.
Count(store, field) ==
    IF IsList(store[field]) THEN Len(store[field].list) ELSE 0


-----------------------------------------------------------------------------
(* The state tools, as functions of the session state                      *)

\* Mutant of set_state: a list already in the field is not replaced.
set_state_keeps_list(store, field, value) ==
    IF IsList(store[field]) THEN store ELSE [store EXCEPT ![field] = value]

\* set_state: tool_context.state[field] = value
set_state(store, field, value) == [store EXCEPT ![field] = value]

\* Mutant of append_read: a string already in the field is kept as the
\* list's first element.
append_read_wraps(store, field) ==
    IF store[field].type = "str" THEN << store[field].str >>
    ELSE IF IsList(store[field]) THEN store[field].list
    ELSE << >>

\* append_state, first half: existing = state.get(field, []), replaced by []
\* when it is not a list.
append_read(store, field) ==
    LET existing == IF store[field].type = "absent" THEN ListVal(<< >>)
                    ELSE store[field]
    IN  IF ~IsList(existing) THEN << >> ELSE existing.list

\* Mutant of append_write: the value is inserted at the front.
append_write_front(store, field, existing, value) ==
    [store EXCEPT ![field] = ListVal(<< value >> \o existing)]

\* append_state, second half: existing.append(value); state[field] = existing
append_write(store, field, existing, value) ==
    [store EXCEPT ![field] = ListVal(Append(existing, value))]

\* Mutant of append_state: a value already in the list is not added again.
append_state_unique(store, field, value) ==
    IF \E i \in 1..Len(append_read(store, field)) :
          append_read(store, field)[i] = value
    THEN [store EXCEPT ![field] = ListVal(append_read(store, field))]
    ELSE append_write(store, field, append_read(store, field), value)

\* append_state as one call
append_state(store, field, value) ==
    append_write(store, field, append_read(store, field), value)

\* Mutant of reset_case: the judge_feedback assignment is missing.
reset_case_keeps_feedback(store) ==
    [store EXCEPT !["topic"]     = StrVal(""),
                  !["pos_data"]  = ListVal(<< >>),
                  !["neg_data"]  = ListVal(<< >>),
                  !["pos_round"] = IntVal(0),
                  !["neg_round"] = IntVal(0)]

\* reset_case: six assignments
reset_case(store) ==
    [store EXCEPT !["topic"]          = StrVal(""),
                  !["pos_data"]       = ListVal(<< >>),
                  !["neg_data"]       = ListVal(<< >>),
                  !["judge_feedback"] = StrVal(""),
                  !["pos_round"]      = IntVal(0),
                  !["neg_round"]      = IntVal(0)]

\* The record kept of a completed tool call.
Call(tool, field, value, before) ==
    [tool |-> tool, field |-> field, value |-> value, before |-> before]

NoCall(store) == Call("none", "", Absent, store)

-----------------------------------------------------------------------------
(* The agents                                                              *)

Workers == {"admirer", "critic"}

Agents == {"resetter", "clerk", "court_trial", "investigation_team",
           "admirer", "critic", "judge", "verdict_scribe"}

\* Mutant of WorkerField: both workers append to the same field.
WorkerFieldShared(w) == "pos_data"

\* admirer: append_state(field="pos_data", ...);
\* critic:  append_state(field="neg_data", ...)
WorkerField(w) == IF w = "admirer" THEN "pos_data" ELSE "neg_data"

\* The statements a worker may derive for the k-th point of a turn.  One
\* candidate per point keeps the runs few; the points of a turn differ and
\* later turns repeat them ("Avoid duplication" is an instruction, no tool
\* enforces it), so the lists hold both distinct and repeated elements.
Items(w, k) ==
    IF w = "admirer"
    THEN (IF k = 1 THEN {"achievement A"} ELSE {"achievement B"})
    ELSE (IF k = 1 THEN {"criticism A"} ELSE {"criticism B"})

\* The topics the clerk may extract from the user's message.
Topics == {"Leonardo da Vinci", "Napoleon"}

Idle == [pc |-> "idle", existing |-> << >>, value |-> "", appended |-> << >>,
         feedback |-> Absent]

\* Mutant of FeedbackRead: the judge's feedback does not reach the workers.
FeedbackReadNone(store) == StrVal("")

\* admirer / critic: "If judge_feedback exists, refine search using it":
\* the feedback a worker has before it at the start of its turn.
FeedbackRead(store) == store["judge_feedback"]

Digit == << "0", "1", "2", "3", "4", "5", "6", "7", "8", "9" >>

\* str(n) for n >= 0
RECURSIVE NumStr(_)
NumStr(n) == IF n < 10 THEN Digit[n + 1]
             ELSE NumStr(n \div 10) \o Digit[(n % 10) + 1]

\* judge, rule 1: the feedback for a negative side with < 4 points
NegFeedback(store) ==
    "Found only " \o NumStr(Count(store, "neg_data"))
    \o " points. Please find MORE specific controversies or failed projects."

\* judge, rule 2: the feedback for a positive side with < 4 points
PosFeedback(store) ==
    "Found only " \o NumStr(Count(store, "pos_data"))
    \o " points. Please find MORE diverse achievements in science, art, or engineering."

Rule1(store) == Count(store, "neg_data") < Threshold
Rule2(store) == Count(store, "pos_data") < Threshold
\* Mutant of Rule3: "at least 4" read as "more than 4".
Rule3Strict(store) == /\ Count(store, "pos_data") > Threshold
                      /\ Count(store, "neg_data") > Threshold

\* Mutant of Rule3: either side at the threshold is enough.
Rule3Either(store) == \/ Count(store, "pos_data") >= Threshold
                      \/ Count(store, "neg_data") >= Threshold

Rule3(store) == /\ Count(store, "pos_data") >= Threshold
                /\ Count(store, "neg_data") >= Threshold

\* Mutant of SetFeedback: the judge's set_state names the topic field.
SetFeedbackTopic(msg) == [tool |-> "set_state", field |-> "topic", value |-> msg]

SetFeedback(msg) == [tool |-> "set_state", field |-> "judge_feedback", value |-> msg]
ExitLoop == [tool |-> "exit_loop", field |-> "", value |-> ""]

\* The judge's Decision Rules read top to bottom: every rule whose condition
\* holds, in the order written.
RulesInOrder(store) ==
    (IF Rule1(store) THEN << SetFeedback(NegFeedback(store)) >> ELSE << >>)
    \o (IF Rule2(store) THEN << SetFeedback(PosFeedback(store)) >> ELSE << >>)
    \o (IF Rule3(store) THEN << ExitLoop >> ELSE << >>)

\* The tool calls one judge turn may make.  The three rules are written as
\* separate "If"s with no "else": when rules 1 and 2 both apply the judge may
\* stop after the first or carry out both.
JudgeTurns(store) ==
    IF RulesInOrder(store) = << >> THEN { << >> }
    ELSE { RulesInOrder(store), << Head(RulesInOrder(store)) >> }

\* Mutant of ApplyCalls: exit_loop also clears judge_feedback.
RECURSIVE ApplyCallsClearing(_, _)
ApplyCallsClearing(store, calls) ==
    IF calls = << >> THEN store
    ELSE ApplyCallsClearing(
           IF Head(calls).tool = "set_state"
           THEN set_state(store, Head(calls).field, StrVal(Head(calls).value))
           ELSE set_state(store, "judge_feedback", StrVal("")),
           Tail(calls))

\* The session state after the judge's calls, made in order.
RECURSIVE ApplyCalls(_, _)
ApplyCalls(store, calls) ==
    IF calls = << >> THEN store
    ELSE ApplyCalls(
           IF Head(calls).tool = "set_state"
           THEN set_state(store, Head(calls).field, StrVal(Head(calls).value))
           ELSE store,
           Tail(calls))

\* Mutant of Escalates: court_trial does not look at actions.escalate.
EscalatesIgnored(calls) == FALSE

\* exit_loop sets actions.escalate, which ends court_trial.
Escalates(calls) == \E i \in 1..Len(calls) : calls[i].tool = "exit_loop"

\* The last set_state call of a judge turn, for the call record.
LastSet(calls, store) ==
    LET idx == { i \in 1..Len(calls) : calls[i].tool = "set_state" }
    IN  IF idx = {} THEN NoCall(store)
        ELSE LET i == CHOOSE j \in idx : \A k \in idx : k <= j
             IN  Call("set_state", calls[i].field, StrVal(calls[i].value),
                      ApplyCalls(store, SubSeq(calls, 1, i - 1)))

-----------------------------------------------------------------------------
(* One run of root_agent                                                   *)

EmptyStore == [k \in Keys |-> Absent]

\* A session state left by an earlier run of the pipeline.
UsedStore ==
    [k \in Keys |->
        CASE k = "topic"          -> StrVal("Napoleon")
          [] k = "pos_data"       -> ListVal(<< "achievement A", "achievement A" >>)
          [] k = "neg_data"       -> ListVal(<< "criticism B" >>)
          [] k = "judge_feedback" -> StrVal("Found only 1 points. Please find MORE specific controversies or failed projects.")
          [] k = "pos_round"      -> IntVal(0)
          [] k = "neg_round"      -> IntVal(0)
          [] OTHER                -> Absent]

\* A session state whose fields were overwritten with values of other types.
OddStore ==
    [k \in Keys |->
        CASE k = "pos_data" -> StrVal("achievement A")
          [] k = "neg_data" -> IntVal(0)
          [] OTHER          -> Absent]

SessionStates == {EmptyStore, UsedStore, OddStore}

\* Mutant of NextAgent: verdict_scribe is missing from sub_agents.
NextAgentNoScribe(a) ==
    CASE a = "resetter" -> "clerk"
      [] a = "clerk"    -> "court_trial"
      [] OTHER          -> "done"

\* Mutant of NextAgent: clerk and court_trial swapped in sub_agents.
NextAgentSwapped(a) ==
    CASE a = "resetter"    -> "court_trial"
      [] a = "court_trial" -> "clerk"
      [] a = "clerk"       -> "verdict_scribe"
      [] OTHER             -> "done"

\* root_agent: sub_agents=[resetter, clerk, court_trial, verdict_scribe],
\* run one after the other.
NextAgent(a) ==
    CASE a = "resetter"    -> "clerk"
      [] a = "clerk"       -> "court_trial"
      [] a = "court_trial" -> "verdict_scribe"
      [] OTHER             -> "done"

Init ==
    /\ state \in SessionStates
    /\ result = "none"
    /\ last = NoCall(state)
    /\ pc = "resetter"
    /\ sub = "none"
    /\ times_looped = 0
    /\ worker = [w \in Workers |-> Idle]
    /\ snapshot = state
    /\ invocations = [a \in Agents |-> 0]
    /\ files = {}
    /\ judge_calls = << >>
    /\ ncalls = 0

Ran(agents) ==
    [a \in Agents |-> IF a \in agents THEN invocations[a] + 1 ELSE invocations[a]]

\* resetter: "Call reset_case once."
Resetter ==
    /\ pc = "resetter"
    /\ state' = reset_case(state)
    /\ result' = "reset"
    /\ last' = Call("reset_case", "", Absent, state)
    /\ pc' = NextAgent("resetter")
    /\ invocations' = Ran({"resetter"})
    /\ UNCHANGED << sub, times_looped, worker, snapshot, files, judge_calls, ncalls >>

\* clerk: set_state(field="topic", value="<topic_name>")
Clerk ==
    /\ pc = "clerk"
    /\ \E t \in Topics :
          /\ state' = set_state(state, "topic", StrVal(t))
          /\ last' = Call("set_state", "topic", StrVal(t), state)
    /\ result' = "success"
    /\ pc' = NextAgent("clerk")
    /\ invocations' = Ran({"clerk"})
    /\ UNCHANGED << sub, times_looped, worker, snapshot, files, judge_calls, ncalls >>

\* court_trial starts: no iteration done yet.
CourtTrialStart ==
    /\ pc = "court_trial"
    /\ sub = "none"
    /\ sub' = "head"
    /\ times_looped' = 0
    /\ invocations' = Ran({"court_trial"})
    /\ UNCHANGED << state, result, last, pc, worker, snapshot, files, judge_calls,
                    ncalls >>

\* Mutant of LoopContinues: no cap on the iterations.
LoopContinuesUncapped == TRUE

\* Mutant of LoopContinues: the cap compared with <=.
LoopContinuesInclusive == times_looped <= max_iterations

\* court_trial: the loop condition, times_looped < max_iterations
LoopContinues == times_looped < max_iterations

\* court_trial starts an iteration: investigation_team starts both workers.
StartRound ==
    /\ pc = "court_trial"
    /\ sub = "head"
    /\ LoopContinues
    /\ sub' = "investigation_team"
    /\ worker' = [w \in Workers |->
                     [Idle EXCEPT !.pc = "run", !.feedback = FeedbackRead(state)]]
    /\ snapshot' = state
    /\ invocations' = Ran({"investigation_team", "admirer", "critic"})
    /\ UNCHANGED << state, result, last, pc, times_looped, files, judge_calls, ncalls >>

\* court_trial has run max_iterations iterations: verdict_scribe is next.
LoopExhausted ==
    /\ pc = "court_trial"
    /\ sub = "head"
    /\ ~LoopContinues
    /\ pc' = NextAgent("court_trial")
    /\ sub' = "done"
    /\ UNCHANGED << state, result, last, times_looped, worker, snapshot,
                    invocations, files, judge_calls, ncalls >>

\* A worker starts an append_state call: the read half.
WorkerRead(w) ==
    /\ worker[w].pc = "run"
    /\ Len(worker[w].appended) < PointsPerRound
    /\ \E v \in Items(w, Len(worker[w].appended) + 1) :
          worker' = [worker EXCEPT ![w].pc = "write",
                                   ![w].existing = append_read(state, WorkerField(w)),
                                   ![w].value = v]
    /\ UNCHANGED << state, result, last, pc, sub, times_looped, snapshot,
                    invocations, files, judge_calls, ncalls >>

\* The call's write-back half, and its return.
WorkerWrite(w) ==
    /\ worker[w].pc = "write"
    /\ state' = append_write(state, WorkerField(w), worker[w].existing, worker[w].value)
    /\ result' = "success"
    /\ last' = Call("append_state", WorkerField(w), StrVal(worker[w].value), state)
    /\ worker' = [worker EXCEPT ![w].pc = "run",
                                ![w].existing = << >>,
                                ![w].value = "",
                                ![w].appended = Append(@, worker[w].value)]
    /\ UNCHANGED << pc, sub, times_looped, snapshot, invocations, files, judge_calls, ncalls >>

\* A worker ends its turn, with PointsPerRound points appended or fewer
\* (a lookup that yields nothing new).
WorkerStop(w) ==
    /\ worker[w].pc = "run"
    /\ worker' = [worker EXCEPT ![w].pc = "done"]
    /\ UNCHANGED << state, result, last, pc, sub, times_looped, snapshot,
                    invocations, files, judge_calls, ncalls >>

\* Mutant of TeamFinished: the first worker to finish ends the team.
TeamFinishedAny == \E w \in Workers : worker[w].pc = "done"

\* Mutant of TeamFinished: the team also waits for each worker's two points.
TeamFinishedFull ==
    \A w \in Workers :
       worker[w].pc = "done" /\ Len(worker[w].appended) = PointsPerRound

\* investigation_team (ParallelAgent) is finished when every sub-agent is.
TeamFinished == \A w \in Workers : worker[w].pc = "done"

\* court_trial moves on to its next sub-agent, the judge.
Join ==
    /\ pc = "court_trial"
    /\ sub = "investigation_team"
    /\ TeamFinished
    /\ sub' = "judge"
    /\ UNCHANGED << state, result, last, pc, times_looped, worker, snapshot,
                    invocations, files, judge_calls, ncalls >>

\* One judge turn; court_trial ends if it escalated, else counts the iteration.
Judge ==
    /\ pc = "court_trial"
    /\ sub = "judge"
    /\ \E calls \in JudgeTurns(state) :
          /\ state' = ApplyCalls(state, calls)
          /\ judge_calls' = calls
          /\ last' = LastSet(calls, state)
          /\ result' = IF last'.tool = "set_state" THEN "success" ELSE result
          /\ IF Escalates(calls)
             THEN /\ pc' = NextAgent("court_trial")
                  /\ sub' = "done"
                  /\ times_looped' = times_looped
             ELSE /\ pc' = pc
                  /\ sub' = "head"
                  /\ times_looped' = times_looped + 1
    /\ invocations' = Ran({"judge"})
    /\ UNCHANGED << worker, snapshot, files, ncalls >>

\* Mutant of PathJoin: the separator is missing.
PathJoinNoSep(directory, filename) == directory \o filename

\* os.path.join(directory, filename)
PathJoin(directory, filename) == directory \o "/" \o filename

\* write_file: the file at the path is created or overwritten.
write_file(fs, directory, filename, content) ==
    { f \in fs : f.path # PathJoin(directory, filename) }
    \cup { [path |-> PathJoin(directory, filename), content |-> content] }

\* verdict_scribe: write_file("court_reports", "{topic}_verdict.txt", report)
VerdictScribe ==
    /\ pc = "verdict_scribe"
    /\ files' = write_file(files, "court_reports",
                           state["topic"].str \o "_verdict.txt",
                           [achievements |-> state["pos_data"].list,
                            controversies |-> state["neg_data"].list])
    /\ result' = "success"
    /\ last' = Call("write_file", "", Absent, state)
    /\ pc' = NextAgent("verdict_scribe")
    /\ invocations' = Ran({"verdict_scribe"})
    /\ UNCHANGED << state, sub, times_looped, worker, snapshot, judge_calls, ncalls >>

Next ==
    \/ Resetter
    \/ Clerk
    \/ CourtTrialStart
    \/ StartRound
    \/ LoopExhausted
    \/ \E w \in Workers : WorkerRead(w)
    \/ \E w \in Workers : WorkerWrite(w)
    \/ \E w \in Workers : WorkerStop(w)
    \/ Join
    \/ Judge
    \/ VerdictScribe

Spec == Init /\ [][Next]_vars

\* A run in which every call returns: a step that can be taken is taken.
FairSpec == Spec /\ WF_vars(Next)

-----------------------------------------------------------------------------
(* The state tools called directly                                         *)

\* Values and points passed to the tools.
ToolStrings == {"", "x"}
ToolPoints  == {"x", "y"}

\* A session state with a key the pipeline does not use.
ExtraStore == [UsedStore EXCEPT !["extra"] = ListVal(<< "x" >>)]

ToolInit ==
    /\ state \in SessionStates \cup {ExtraStore}
    /\ result = "none"
    /\ last = NoCall(state)
    /\ pc = "tools"
    /\ sub = "none"
    /\ times_looped = 0
    /\ worker = [w \in Workers |-> Idle]
    /\ snapshot = state
    /\ invocations = [a \in Agents |-> 0]
    /\ files = {}
    /\ judge_calls = << >>
    /\ ncalls = 0

ToolFrame ==
    /\ pc = "tools"
    /\ ncalls < MaxCalls
    /\ ncalls' = ncalls + 1
    /\ UNCHANGED << pc, sub, times_looped, worker, snapshot, invocations, files,
                    judge_calls >>

\* set_state(field, value); returns {"status": "success"}
SetState ==
    /\ ToolFrame
    /\ \E f \in Keys, v \in ToolStrings :
          /\ state' = set_state(state, f, StrVal(v))
          /\ last' = Call("set_state", f, StrVal(v), state)
    /\ result' = "success"

\* append_state(field, value); returns {"status": "success"}
AppendState ==
    /\ ToolFrame
    /\ \E f \in Keys, v \in ToolPoints :
          /\ state' = append_state(state, f, v)
          /\ last' = Call("append_state", f, StrVal(v), state)
    /\ result' = "success"

\* reset_case(); returns {"status": "reset"}
ResetCase ==
    /\ ToolFrame
    /\ state' = reset_case(state)
    /\ last' = Call("reset_case", "", Absent, state)
    /\ result' = "reset"

ToolNext == SetState \/ AppendState \/ ResetCase

ToolSpec == ToolInit /\ [][ToolNext]_vars

-----------------------------------------------------------------------------
(* Claims                                                                  *)

\* court_trial has ended: root_agent is at or past verdict_scribe.
LoopEnded == pc \in {"verdict_scribe", "done"}

\* The judge has called exit_loop.
Escalated == Escalates(judge_calls)

PosCount == Count(state, "pos_data")
NegCount == Count(state, "neg_data")

\* C1. Loop cap: when court_trial has ended and the judge never called
\* exit_loop, exactly max_iterations (6) rounds were run: investigation_team,
\* admirer, critic and judge 6 times each, whatever pos_data and neg_data hold.
C1_LoopCap ==
    (LoopEnded /\ ~Escalated) =>
        /\ times_looped = 6
        /\ invocations["investigation_team"] = 6
        /\ invocations["admirer"] = 6
        /\ invocations["critic"] = 6
        /\ invocations["judge"] = 6
        /\ \A w \in Workers : worker[w].pc = "done"

\* A run that used up the cap with one side far over the threshold.
C1_Witness ==
    /\ pc = "done"
    /\ ~Escalated
    /\ invocations["judge"] = 6
    /\ PosCount = 12
    /\ NegCount = 3

\* Every worker turn so far appended exactly PointsPerRound (2) points.
TwoPerRound ==
    /\ PosCount = 2 * invocations["admirer"]
    /\ NegCount = 2 * invocations["critic"]

\* C2. Loop termination: with 2 points appended per side per round, the judge
\* sees 2/2 in round 1 and does not end the loop, sees 4/4 in round 2 and ends
\* it; court_trial ends with exactly 2 rounds run.
C2_TerminatesAtRound2 ==
    /\ (sub = "judge" /\ TwoPerRound) =>
          \/ invocations["judge"] = 0 /\ PosCount = 2 /\ NegCount = 2
          \/ invocations["judge"] = 1 /\ PosCount = 4 /\ NegCount = 4
    /\ (sub = "head" /\ TwoPerRound /\ invocations["judge"] > 0) =>
          /\ invocations["judge"] = 1
          /\ ~Escalated
    /\ (LoopEnded /\ TwoPerRound) =>
          /\ Escalated
          /\ invocations["judge"] = 2
          /\ invocations["investigation_team"] = 2
          /\ times_looped = 1
          /\ PosCount = 4
          /\ NegCount = 4

\* The loop has ended after two full rounds.
C2_Witness ==
    /\ pc = "done"
    /\ TwoPerRound
    /\ invocations["judge"] = 2
    /\ state["pos_data"].list =
          << "achievement A", "achievement B", "achievement A", "achievement B" >>

\* C3. Threshold gate: exit_loop has been called only when both sides hold at
\* least 4 points, and court_trial ends before its 6th round completes only
\* by that call; a judge turn on fewer than 4 points on either side does not
\* call exit_loop.
C3_ThresholdGate ==
    /\ Escalated => (PosCount >= 4 /\ NegCount >= 4)
    /\ (LoopEnded /\ times_looped < 6) => (Escalated /\ PosCount >= 4 /\ NegCount >= 4)
    /\ (invocations["judge"] > 0 /\ sub = "head") =>
          (~Escalated /\ (PosCount < 4 \/ NegCount < 4))

\* An early end, in round 4, with one side over the threshold.
C3_Witness ==
    /\ LoopEnded
    /\ Escalated
    /\ times_looped = 3
    /\ PosCount = 8
    /\ NegCount = 4

\* A judge turn has ended and no worker has run since: the counts are those
\* the judge evaluated.
JudgeJustRan == invocations["judge"] > 0 /\ (sub = "head" \/ LoopEnded)

\* C4. Adjudicator priority: a judge turn makes exactly one call, by the first
\* rule that applies: with fewer than 4 negative points (whatever the positive
\* count) judge_feedback is the negative-shortfall message; the positive-
\* shortfall message is written only with neg >= 4 and pos < 4; else exit_loop.
C4_Priority ==
    JudgeJustRan =>
        /\ Len(judge_calls) = 1
        /\ NegCount < 4 =>
              /\ judge_calls = << SetFeedback(NegFeedback(state)) >>
              /\ state["judge_feedback"] = StrVal(NegFeedback(state))
        /\ (NegCount >= 4 /\ PosCount < 4) =>
              /\ judge_calls = << SetFeedback(PosFeedback(state)) >>
              /\ state["judge_feedback"] = StrVal(PosFeedback(state))
        /\ (NegCount >= 4 /\ PosCount >= 4) =>
              judge_calls = << ExitLoop >>

Ran4(a, b, c, d) ==
    /\ invocations["resetter"] = a
    /\ invocations["clerk"] = b
    /\ invocations["court_trial"] = c
    /\ invocations["verdict_scribe"] = d

\* C5. Pipeline order: resetter, clerk, court_trial, verdict_scribe run in
\* that order, once each; a step starts only when the one before it is
\* complete, and the loop's agents run only inside court_trial.
C5_PipelineOrder ==
    /\ pc \in {"resetter", "clerk", "court_trial", "verdict_scribe", "done"}
    /\ pc = "resetter" => Ran4(0, 0, 0, 0)
    /\ pc = "clerk" => Ran4(1, 0, 0, 0) /\ last.tool = "reset_case"
    /\ pc = "court_trial" =>
          /\ invocations["resetter"] = 1
          /\ invocations["clerk"] = 1
          /\ invocations["court_trial"] = (IF sub = "none" THEN 0 ELSE 1)
          /\ invocations["verdict_scribe"] = 0
          /\ state["topic"] \in { StrVal(t) : t \in Topics }
    /\ pc = "verdict_scribe" => Ran4(1, 1, 1, 0) /\ sub = "done"
    /\ pc = "done" => Ran4(1, 1, 1, 1) /\ sub = "done" /\ files # {}
    /\ pc # "court_trial" =>
          /\ sub \in {"none", "done"}
          /\ \A w \in Workers : worker[w].pc \in {"idle", "done"}
    /\ pc \in {"resetter", "clerk"} =>
          \A a \in {"investigation_team", "admirer", "critic", "judge"} :
             invocations[a] = 0

\* The whole pipeline has run, with a loop of several rounds in the middle.
C5_Witness ==
    /\ pc = "done"
    /\ Ran4(1, 1, 1, 1)
    /\ invocations["judge"] = 3

\* C6. Join barrier: the judge runs only when both workers of the round have
\* finished, on lists holding every point appended in the round; workers run
\* only during investigation_team, which starts again only after the judge's
\* turn has ended.
C6_JoinBarrier ==
    /\ sub = "judge" =>
          \A w \in Workers :
             /\ worker[w].pc = "done"
             /\ state[WorkerField(w)] =
                   ListVal(snapshot[WorkerField(w)].list \o worker[w].appended)
    /\ (\E w \in Workers : worker[w].pc \in {"run", "write"}) =>
          (pc = "court_trial" /\ sub = "investigation_team")
    /\ invocations["investigation_team"] =
          invocations["judge"]
          + (IF sub \in {"investigation_team", "judge"} THEN 1 ELSE 0)

\* The judge of round 3 is about to run on a round in which both appended.
C6_Witness ==
    /\ sub = "judge"
    /\ invocations["judge"] = 2
    /\ Len(worker["admirer"].appended) = 2
    /\ Len(worker["critic"].appended) = 1

\* A worker's turn run on its own: its points appended one call at a time.
RECURSIVE RunTurn(_, _, _)
RunTurn(store, w, points) ==
    IF points = << >> THEN store
    ELSE RunTurn(append_state(store, WorkerField(w), Head(points)), w, Tail(points))

\* C7. Fan-out interleaving independence: at every point of a round, under
\* every interleaving of the read and write-back halves of the two workers'
\* appends, pos_data is its value at the round's start followed by the
\* admirer's points, neg_data likewise with the critic's, nothing else has
\* changed, and the state is the one reached by running the completed appends
\* of the two workers one after the other, in either order.
C7_InterleavingIndependence ==
    (pc = "court_trial" /\ sub \in {"investigation_team", "judge"}) =>
        LET a == worker["admirer"].appended
            c == worker["critic"].appended
        IN  /\ state["pos_data"] = ListVal(snapshot["pos_data"].list \o a)
            /\ state["neg_data"] = ListVal(snapshot["neg_data"].list \o c)
            /\ \A k \in Keys \ {"pos_data", "neg_data"} : state[k] = snapshot[k]
            /\ state = RunTurn(RunTurn(snapshot, "admirer", a), "critic", c)
            /\ state = RunTurn(RunTurn(snapshot, "critic", c), "admirer", a)

\* Both workers are between the read and the write-back of their second
\* append, in a later round.
C7_Witness ==
    /\ times_looped = 1
    /\ \A w \in Workers :
          /\ worker[w].pc = "write"
          /\ Len(worker[w].appended) = 1
          /\ Len(worker[w].existing) = 3

IsPrefix(s, t) == Len(s) <= Len(t) /\ SubSeq(t, 1, Len(s)) = s

\* A step inside court_trial or verdict_scribe keeps each evidence list as a
\* prefix of its new value.
GrowsOnly ==
    pc \in {"court_trial", "verdict_scribe"} =>
        \A f \in {"pos_data", "neg_data"} :
           /\ IsList(state[f])
           /\ IsList(state'[f])
           /\ Len(state'[f].list) >= Len(state[f].list)
           /\ IsPrefix(state[f].list, state'[f].list)

\* C8. Monotonic evidence: from the start of court_trial to the end of
\* verdict_scribe every step leaves pos_data and neg_data lists of which the
\* earlier value is a prefix of the later one (so the lengths never decrease).
C8_MonotonicEvidence == [][GrowsOnly]_vars

\* The report has been written on lists that grew over several rounds.
C8_Witness ==
    /\ pc = "done"
    /\ PosCount = 5
    /\ NegCount = 7

\* C9. Append round-trip: after append_state(field, v) on a field holding a
\* list s, the call returned success and the field holds s with v added at
\* the end: length Len(s) + 1, last element v, the elements before it those
\* of s in order; on an absent field it holds << v >>.
C9_AppendRoundTrip ==
    last.tool = "append_state" =>
        LET before == last.before[last.field]
            after  == state[last.field]
            v      == last.value.str
        IN  /\ result = "success"
            /\ IsList(before) =>
                  /\ IsList(after)
                  /\ Len(after.list) = Len(before.list) + 1
                  /\ after.list[Len(after.list)] = v
                  /\ \A i \in 1..Len(before.list) : after.list[i] = before.list[i]
            /\ before.type = "absent" => after = ListVal(<< v >>)

\* An append of a value to a list that already holds that value.
C9_Witness ==
    /\ last.tool = "append_state"
    /\ IsList(last.before[last.field])
    /\ Len(last.before[last.field].list) = 1
    /\ last.before[last.field].list[1] = last.value.str
    /\ ncalls = 2

\* C10. Reset: after reset_case the six fields hold "", [], [], "", 0, 0, the
\* call returned its confirmation, and a second reset_case changes nothing.
C10_Reset ==
    last.tool = "reset_case" =>
        /\ state["topic"] = StrVal("")
        /\ state["pos_data"] = ListVal(<< >>)
        /\ state["neg_data"] = ListVal(<< >>)
        /\ state["judge_feedback"] = StrVal("")
        /\ state["pos_round"] = IntVal(0)
        /\ state["neg_round"] = IntVal(0)
        /\ result = "reset"
        /\ reset_case(state) = state
        /\ reset_case(reset_case(last.before)) = reset_case(last.before)

\* A reset of a state with evidence, a topic and feedback in it.
C10_Witness ==
    /\ last.tool = "reset_case"
    /\ last.before["pos_data"].list # << >>
    /\ last.before["topic"].str # ""
    /\ last.before["judge_feedback"].str # ""
    /\ last.before["neg_data"].type = "list"
    /\ Len(last.before["neg_data"].list) = 2


\* A step leaves topic as it is once the clerk has run; topic changes after
\* reset_case's initial assignment only by the clerk's set_state, and no
\* call of a judge turn names it.
TopicStep ==
    /\ pc \in {"court_trial", "verdict_scribe", "done"} =>
          state'["topic"] = state["topic"]
    /\ (state'["topic"] # state["topic"] /\ pc # "resetter") =>
          /\ pc = "clerk"
          /\ last'.tool = "set_state"
          /\ last'.field = "topic"
          /\ state'["topic"] = last'.value
    /\ \A i \in 1..Len(judge_calls') : judge_calls'[i].field # "topic"
    /\ \A w \in Workers : WorkerField(w) # "topic"

C12_NonConvergence ==
    /\ (pc = "court_trial" /\ sub = "head" /\ times_looped = 6) =>
          /\ ~Escalated
          /\ PosCount < 4 \/ NegCount < 4
          /\ ENABLED LoopExhausted
    /\ (LoopEnded /\ ~Escalated) =>
          /\ times_looped = 6
          /\ PosCount < 4 \/ NegCount < 4
          /\ pc = "verdict_scribe" => ENABLED VerdictScribe
          /\ pc = "done" =>
                /\ result = "success"
                /\ \E f \in files :
                      /\ f.content.achievements = state["pos_data"].list
                      /\ f.content.controversies = state["neg_data"].list

\* A report written after six rounds that found nothing on either side.
C12_Witness ==
    /\ pc = "done"
    /\ ~Escalated
    /\ PosCount = 0
    /\ NegCount = 0
    /\ files # {}


\* The latest judge turn called exit_loop.
ExitCalled == \E i \in 1..Len(judge_calls) : judge_calls[i] = ExitLoop

\* Once exit_loop has been called the only step is verdict_scribe's, which
\* runs no loop agent and leaves the session state alone.
AfterExitStep ==
    ExitCalled =>
        /\ pc = "verdict_scribe"
        /\ pc' = "done"
        /\ invocations' = Ran({"verdict_scribe"})
        /\ state' = state
        /\ worker' = worker
        /\ judge_calls' = judge_calls
        /\ times_looped' = times_looped

\* C13. Immediate exit on completion: when the judge calls exit_loop in round
\* k, court_trial has ended with that judge turn: k rounds were started, k
\* judge turns made, no worker is running, verdict_scribe is the step that
\* can run next, and no admirer, critic or judge step follows.
C13_ImmediateExit ==
    /\ [](ExitCalled =>
             /\ LoopEnded
             /\ sub = "done"
             /\ invocations["judge"] = times_looped + 1
             /\ invocations["investigation_team"] = times_looped + 1
             /\ invocations["admirer"] = times_looped + 1
             /\ invocations["critic"] = times_looped + 1
             /\ invocations["judge"] \in 1..6
             /\ \A w \in Workers : worker[w].pc = "done"
             /\ pc = "verdict_scribe" => ENABLED VerdictScribe)
    /\ [][AfterExitStep]_vars

\* exit_loop was called in the last round the cap allows, and the report
\* has been written.
C13_Witness ==
    /\ ExitCalled
    /\ invocations["judge"] = 6
    /\ pc = "done"
    /\ files # {}


\* C14. Append on a non-sequence: after append_state(field, v) on a field
\* holding a value that is not a list (a string, a number), the call returned
\* success, the field holds << v >> alone, and every other field is as it was.
C14_AppendOnNonList ==
    (/\ last.tool = "append_state"
     /\ last.before[last.field].type \in {"str", "int"}) =>
        /\ result = "success"
        /\ state[last.field] = ListVal(<< last.value.str >>)
        /\ Len(state[last.field].list) = 1
        /\ \A k \in Keys \ {last.field} : state[k] = last.before[k]

\* append_state on a field that set_state had just set to "x".
C14_Witness ==
    /\ last.tool = "append_state"
    /\ last.before[last.field] = StrVal("x")
    /\ last.value = StrVal("y")
    /\ ncalls = 2
    /\ last.field = "extra"


\* The value of the last set_state(judge_feedback) call of the latest judge
\* turn.
WrittenFeedback ==
    LET idx == { i \in 1..Len(judge_calls) :
                    /\ judge_calls[i].tool = "set_state"
                    /\ judge_calls[i].field = "judge_feedback" }
    IN  IF idx = {} THEN Absent
        ELSE StrVal(judge_calls[CHOOSE j \in idx : \A k \in idx : k <= j].value)

\* judge_feedback is "" from reset_case to the first judge turn, and the
\* workers of a round have before them "" in round 1 and, in a later round,
\* what the judge of the round before wrote last.
FeedbackReachesWorkers ==
    /\ (pc \in {"clerk", "court_trial"} /\ invocations["judge"] = 0) =>
          state["judge_feedback"] = StrVal("")
    /\ (pc = "court_trial" /\ sub \in {"investigation_team", "judge"}) =>
          \A w \in Workers :
             /\ invocations["judge"] = 0 => worker[w].feedback = StrVal("")
             /\ invocations["judge"] > 0 =>
                   /\ worker[w].feedback = WrittenFeedback
                   /\ worker[w].feedback.type = "str"
                   /\ worker[w].feedback.str # ""

\* C15 as stated. Feedback lifecycle: judge_feedback is empty until the first
\* judge turn, the workers read the previous round's value, and every judge
\* turn overwrites judge_feedback.
C15_OverwrittenEachRound ==
    /\ FeedbackReachesWorkers
    /\ JudgeJustRan =>
          /\ WrittenFeedback # Absent
          /\ state["judge_feedback"] = WrittenFeedback

\* C15 as amended. Feedback lifecycle: judge_feedback is empty until the first
\* judge turn, the workers read the previous round's value, and every judge
\* turn that does not call exit_loop overwrites judge_feedback; the turn that
\* calls exit_loop writes nothing and leaves the value of the round before.
C15_FeedbackLifecycle ==
    /\ FeedbackReachesWorkers
    /\ (JudgeJustRan /\ ~ExitCalled) =>
          /\ WrittenFeedback # Absent
          /\ state["judge_feedback"] = WrittenFeedback
    /\ ExitCalled =>
          /\ WrittenFeedback = Absent
          /\ state["judge_feedback"] = snapshot["judge_feedback"]
          /\ \A w \in Workers : state["judge_feedback"] = worker[w].feedback

\* Round 3: both workers run with the feedback of round 2 before them, which
\* differs from the one of round 1.
C15_Witness ==
    /\ sub = "investigation_team"
    /\ times_looped = 2
    /\ \A w \in Workers :
          /\ worker[w].pc = "run"
          /\ worker[w].feedback =
                StrVal("Found only 3 points. Please find MORE specific controversies or failed projects.")
    /\ PosCount = 4


\* C16. Report step: nothing is written before verdict_scribe, which runs
\* only once court_trial has ended; its one write_file call writes
\* court_reports/<topic>_verdict.txt for the topic in the session state, and
\* the session state after it is the one before it.
C16_ReportStep ==
    /\ pc # "done" =>
          /\ files = {}
          /\ invocations["verdict_scribe"] = 0
          /\ last.tool # "write_file"
    /\ pc = "verdict_scribe" =>
          /\ sub = "done"
          /\ \A w \in Workers : worker[w].pc = "done"
          /\ invocations["judge"] >= 1
    /\ pc = "done" =>
          /\ invocations["verdict_scribe"] = 1
          /\ last.tool = "write_file"
          /\ Cardinality(files) = 1
          /\ \A f \in files :
                f.path = "court_reports/" \o state["topic"].str \o "_verdict.txt"
          /\ \A k \in Keys : state[k] = last.before[k]

\* The report for Leonardo da Vinci has been written after an early exit.
C16_Witness ==
    /\ pc = "done"
    /\ files # {}
    /\ \E f \in files : f.path = "court_reports/Leonardo da Vinci_verdict.txt"
    /\ Escalated
    /\ times_looped = 1


\* C17. Invocation bound: the round counter never exceeds 6; admirer, critic
\* and investigation_team have run once per round started, the judge as often
\* or once less while a round is open, and as often once court_trial has
\* ended: at most 6 each, 18 worker and judge invocations in all.
C17_InvocationBound ==
    /\ times_looped \in 0..6
    /\ invocations["investigation_team"] <= 6
    /\ invocations["admirer"] = invocations["investigation_team"]
    /\ invocations["critic"] = invocations["investigation_team"]
    /\ invocations["investigation_team"] =
          times_looped
          + (IF sub \in {"investigation_team", "judge"} \/ ExitCalled THEN 1 ELSE 0)
    /\ invocations["judge"] =
          invocations["investigation_team"]
          - (IF sub \in {"investigation_team", "judge"} THEN 1 ELSE 0)
    /\ LoopEnded =>
          /\ invocations["judge"] = invocations["admirer"]
          /\ invocations["judge"] = invocations["critic"]
          /\ invocations["admirer"] + invocations["critic"] + invocations["judge"] <= 18

\* A run of 18 loop invocations that ended at the cap.
C17_Witness ==
    /\ LoopEnded
    /\ invocations["admirer"] + invocations["critic"] + invocations["judge"] = 18
    /\ PosCount = 3
    /\ NegCount = 12

\* C18. Set frame: after set_state(field, value) the call returned success,
\* the field holds value whatever it held before, and every other field is
\* as it was.
C18_SetFrame ==
    last.tool = "set_state" =>
        /\ result = "success"
        /\ state[last.field] = last.value
        /\ \A k \in Keys \ {last.field} : state[k] = last.before[k]

\* set_state on a field that held a list of two points.
C18_Witness ==
    /\ last.tool = "set_state"
    /\ IsList(last.before[last.field])
    /\ Len(last.before[last.field].list) = 2
    /\ last.value = StrVal("x")

\* A judge turn changes no field but judge_feedback; with exit_loop called it
\* changes none, else it leaves one of the two shortfall messages.
JudgeFrame ==
    (pc = "court_trial" /\ sub = "judge") =>
        /\ \A k \in Keys \ {"judge_feedback"} : state'[k] = state[k]
        /\ (\E i \in 1..Len(judge_calls') : judge_calls'[i] = ExitLoop) =>
              state' = state
        /\ (\A i \in 1..Len(judge_calls') : judge_calls'[i] # ExitLoop) =>
              state'["judge_feedback"] \in
                 { StrVal(NegFeedback(state)), StrVal(PosFeedback(state)) }

\* C19. Adjudicator frame: no judge turn changes topic, pos_data or neg_data;
\* a shortfall turn changes judge_feedback only, the completion turn changes
\* nothing, so that after it judge_feedback is still what the round started
\* with: the last shortfall message.
C19_AdjudicatorFrame ==
    /\ [][JudgeFrame]_vars
    /\ [](ExitCalled =>
             /\ state["judge_feedback"] = snapshot["judge_feedback"]
             /\ state["judge_feedback"].str # "")

\* The completion turn has run in round 5; judge_feedback still holds the
\* positive-shortfall message of round 4.
C19_Witness ==
    /\ ExitCalled
    /\ invocations["judge"] = 5
    /\ state["judge_feedback"] =
          StrVal("Found only 3 points. Please find MORE diverse achievements in science, art, or engineering.")


\* root_agent has run its last sub-agent.
Finished == pc = "done"

\* C20. Pipeline termination: when every call returns, the run reaches the end
\* of verdict_scribe and stays there, no step being possible after it; before
\* that end a step is always possible, so a run that never ends is one in
\* which a call does not return.
C20_Termination ==
    /\ <>[]Finished
    /\ [](Finished => (~ENABLED Next /\ files # {}))
    /\ [](~Finished => ENABLED Next)

\* The run has ended after the full six rounds, with the loop never exited
\* by the judge.
C20_Witness ==
    /\ Finished
    /\ ~ENABLED Next
    /\ times_looped = 6
    /\ PosCount = 1
    /\ NegCount = 1

====
